---- MODULE Spec2Model ----
(***************************************************************************)
(* Model of formshare/apps/viewer/tasks.py: the export dispatcher          *)
(* (create_async_export), the seven job wrappers (create_*_export), the    *)
(* cleanup job (delete_export) and the record store they share.            *)
(*                                                                         *)
(* The scheduler keeps no clock here: a submitted job may start at any     *)
(* moment after its submission (its countdown is carried as data), and in  *)
(* eager mode the submitter is blocked until the job it submitted ended;   *)
(* an exception of an eager job stays in its result handle.                *)
(***************************************************************************)
EXTENDS Integers, Sequences, FiniteSets, TLC

VARIABLES
    store,                  \* the Export table: id -> row
    nextId,                 \* next primary key the table hands out
    disp,                   \* the frame of the current/last create_async_export call
    jobs,                   \* every job submitted so far; a job's index is its task_id
    CELERY_ALWAYS_EAGER,    \* settings.CELERY_ALWAYS_EAGER
    TESTING_MODE,           \* settings.TESTING_MODE
    sync                    \* the frame of the current/last email_mongo_sync_status run

vars == <<store, nextId, disp, jobs, CELERY_ALWAYS_EAGER, TESTING_MODE, sync>>

----------------------------------------------------------------------------
(* Bounds *)

MaxExports == 1     \* calls of create_async_export (= rows created in a run)
MaxJobs == 3        \* jobs ever put on the queue
MaxDirect == 1      \* of them, jobs the dispatcher and the wrappers of this run did not submit

\* the primary keys of a run: the row that is there from the start, and the new ones
Ids == 1..(MaxExports + 1)

----------------------------------------------------------------------------
(* Export types and statuses, named as the Export model names them *)

XLS_EXPORT == "xls"
GDOC_EXPORT == "gdoc"
CSV_EXPORT == "csv"
CSV_ZIP_EXPORT == "csv_zip"
SAV_ZIP_EXPORT == "sav_zip"
ZIP_EXPORT == "zip"
KML_EXPORT == "kml"
EXTERNAL_EXPORT == "external"

SupportedTypes ==
    {XLS_EXPORT, GDOC_EXPORT, CSV_EXPORT, CSV_ZIP_EXPORT, SAV_ZIP_EXPORT,
     ZIP_EXPORT, KML_EXPORT, EXTERNAL_EXPORT}

\* what a caller may pass: the supported types and one that is none of them
ExportTypes == SupportedTypes \cup {"bogus"}

PENDING == "PENDING"
FAILED == "FAILED"

NoTaskId == <<>>            \* task_id is None
NoFile == "none"            \* no generated output yet
None == <<>>                \* a job's return value None

DISPATCH_COUNTDOWN == 10
ZIP_EXPORT_COUNTDOWN == 3600

----------------------------------------------------------------------------
(* The record store *)

\* Export.objects.create(xform=..., export_type=...): the row as first written
NewExport(id, export_type) ==
    [id |-> id, export_type |-> export_type, internal_status |-> PENDING,
     task_id |-> NoTaskId, filename |-> NoFile]

NullExport == NewExport(0, "none")

\* a row an earlier export left in the table
OldExport ==
    [id |-> 1, export_type |-> CSV_EXPORT, internal_status |-> PENDING,
     task_id |-> <<0>>, filename |-> "file"]

ObjectsCreate(s, export) == (export.id :> export) @@ s

Exists(s, id) == id \in DOMAIN s

\* Model.save() of an instance that has a primary key: every field of the
\* in-memory copy is written; a row that is gone is inserted again
ObjectsSave(s, export) == (export.id :> export) @@ s

ObjectsDelete(s, id) == [i \in DOMAIN s \ {id} |-> s[i]]

----------------------------------------------------------------------------
(* Options and the argument set of create_async_export *)

TabularKeys == {"group_delimiter", "split_select_multiples", "binary_select_multiples"}
ExternalKeys == {"token", "meta"}
OptionKeys == TabularKeys \cup ExternalKeys \cup {"other"}

OptionValue(k) ==
    CASE k = "group_delimiter" -> "|"
      [] k = "split_select_multiples" -> "False"
      [] k = "binary_select_multiples" -> "True"
      [] k = "token" -> "tok"
      [] k = "meta" -> "m"
      [] OTHER -> "x"

OptionsOver(S) == [k \in S |-> OptionValue(k)]

\* every options mapping over the keys; options=None behaves as the empty one
\* (`if options and ...`)
AllOptions == {OptionsOver(S) : S \in SUBSET OptionKeys}

\* the option mappings the callers of the full system pass
CallerOptions == {OptionsOver(OptionKeys)}

NoOptions == OptionsOver({})

USERNAME == "bob"
ID_STRING == "form"
QUERY == "q"

BaseArguments(export_id) ==
    [username |-> USERNAME, id_string |-> ID_STRING,
     export_id |-> export_id, query |-> QUERY]

\* token and meta copied for every type
CopiedKeys_token_everywhere(export_type) ==
    IF export_type \in {XLS_EXPORT, GDOC_EXPORT, CSV_EXPORT, CSV_ZIP_EXPORT,
                        SAV_ZIP_EXPORT}
    THEN TabularKeys \cup ExternalKeys
    ELSE ExternalKeys

\* the keys line 36-43 / 68-71 copy for the type
CopiedKeys(export_type) ==
    IF export_type \in {XLS_EXPORT, GDOC_EXPORT, CSV_EXPORT, CSV_ZIP_EXPORT,
                        SAV_ZIP_EXPORT}
    THEN TabularKeys
    ELSE IF export_type = EXTERNAL_EXPORT THEN ExternalKeys ELSE {}

BuildArguments(export_type, export_id, options) ==
    LET copy == CopiedKeys(export_type) \cap DOMAIN options
    IN [k \in (DOMAIN BaseArguments(export_id)) \cup copy |->
            IF k \in copy THEN options[k] ELSE BaseArguments(export_id)[k]]

ExportTypeError == "ExportTypeError"

\* a chain whose last else submits the CSV job instead of raising
Route_fallthrough(export_type) ==
    IF export_type \in {XLS_EXPORT, GDOC_EXPORT} THEN "create_xls_export"
    ELSE IF export_type = CSV_ZIP_EXPORT THEN "create_csv_zip_export"
    ELSE IF export_type = SAV_ZIP_EXPORT THEN "create_sav_zip_export"
    ELSE IF export_type = ZIP_EXPORT THEN "create_zip_export"
    ELSE IF export_type = KML_EXPORT THEN "create_kml_export"
    ELSE IF export_type = EXTERNAL_EXPORT THEN "create_external_export"
    ELSE "create_csv_export"

\* the wrapper the if/elif chain picks, or the error it raises
Route(export_type) ==
    IF export_type \in {XLS_EXPORT, GDOC_EXPORT, CSV_EXPORT, CSV_ZIP_EXPORT,
                        SAV_ZIP_EXPORT}
    THEN IF export_type \in {XLS_EXPORT, GDOC_EXPORT} THEN "create_xls_export"
         ELSE IF export_type = CSV_EXPORT THEN "create_csv_export"
         ELSE IF export_type = CSV_ZIP_EXPORT THEN "create_csv_zip_export"
         ELSE IF export_type = SAV_ZIP_EXPORT THEN "create_sav_zip_export"
         ELSE ExportTypeError
    ELSE IF export_type = ZIP_EXPORT THEN "create_zip_export"
    ELSE IF export_type = KML_EXPORT THEN "create_kml_export"
    ELSE IF export_type = EXTERNAL_EXPORT THEN "create_external_export"
    ELSE ExportTypeError

----------------------------------------------------------------------------
(* Jobs *)

WrapperTasks ==
    {"create_xls_export", "create_csv_export", "create_kml_export",
     "create_zip_export", "create_csv_zip_export", "create_sav_zip_export",
     "create_external_export"}

Terminal == {"done", "raised"}

\* who put a job on the queue
ByCaller == [by |-> "caller", job |-> 0]
ByDispatcher == [by |-> "dispatcher", job |-> 0]
ByWrapper(i) == [by |-> "wrapper", job |-> i]

\* apply_async((), kwargs, countdown=...): the message put on the queue
NewJob(task, kwargs, countdown, origin) ==
    [task |-> task, kwargs |-> kwargs, countdown |-> countdown, origin |-> origin,
     pc |-> "queued", export |-> NullExport, ext |-> "none", gen |-> "none",
     result |-> None, exc |-> "none", mailed |-> 0, child |-> 0]

Param(kwargs, key, default) == IF key \in DOMAIN kwargs THEN kwargs[key] ELSE default

\* the parameter defaulting to False
Ext_xls_by_default(task, kwargs) ==
    CASE task = "create_xls_export" ->
            IF ~Param(kwargs, "force_xlsx", FALSE) THEN "xls" ELSE "xlsx"
      [] task = "create_csv_export" -> "csv"
      [] task = "create_kml_export" -> "kml"
      [] task \in {"create_zip_export", "create_csv_zip_export",
                   "create_sav_zip_export"} -> "zip"
      [] OTHER -> "none"

\* `ext = 'xls' if not force_xlsx else 'xlsx'`, and the literal each other
\* wrapper hands its generator
Ext(task, kwargs) ==
    CASE task = "create_xls_export" ->
            IF ~Param(kwargs, "force_xlsx", TRUE) THEN "xls" ELSE "xlsx"
      [] task = "create_csv_export" -> "csv"
      [] task = "create_kml_export" -> "kml"
      [] task \in {"create_zip_export", "create_csv_zip_export",
                   "create_sav_zip_export"} -> "zip"
      [] OTHER -> "none"

\* only create_xls_export wraps its Export.objects.get in try/except DoesNotExist
CatchesDoesNotExist(task) == task = "create_xls_export"

NoRecordsFoundError == "NoRecordsFoundError"

\* create_csv_export swallowing whatever its generator raises
Swallows_everything(task, outcome) == task = "create_csv_export"

\* the one except clause that neither reports nor re-raises:
\* create_csv_export's `except NoRecordsFoundError`
Swallows(task, outcome) ==
    task = "create_csv_export" /\ outcome = NoRecordsFoundError

\* the cleanup copied into the KML wrapper as well
SchedulesCleanup_kml_too(task) == task \in {"create_zip_export", "create_kml_export"}

\* only create_zip_export submits delete_export in its else branch
SchedulesCleanup(task) == task = "create_zip_export"

\* what a format generator may do: return, signal no records, or fail otherwise
GenOutcomes(task) ==
    {"ok", NoRecordsFoundError, "Exception"}
        \cup (IF task = "create_external_export" THEN {"ConnectionError"} ELSE {})

\* a generator that succeeds attaches the output to the record it was given
GeneratorWrites(s, export_id) == [s EXCEPT ![export_id].filename = "file"]

\* report_exception(subject, info, exc_info): one report to the admins
ReportException(j) == [j EXCEPT !.mailed = @ + 1]

----------------------------------------------------------------------------
(* email_mongo_sync_status: report texts and REMONGO_PATTERN               *)
(* A text is a sequence of tokens: a line label, a sign, a digit, a line   *)
(* end; a literal the code never looks into is one token.                  *)

MaxCount == 12      \* largest magnitude of a count printed in a report

REMONGO_LABEL == "Total # of records to remongo: "
FORMS_LABEL == "Total # of forms out of sync: "

\* the spellings of the remongo label that differ in case only
RemongoSpellings ==
    {REMONGO_LABEL, "total # of records to remongo: ", "TOTAL # OF RECORDS TO REMONGO: "}

\* case folding, as re.IGNORECASE compares
Lower(token) ==
    IF token \in RemongoSpellings THEN "total # of records to remongo: " ELSE token

Digits == <<"0", "1", "2", "3", "4", "5", "6", "7", "8", "9">>

\* the character class [0-9]
AnyDigit == {Digits[d] : d \in 1..10}

\* the character class [1-9]
NonZeroDigit == AnyDigit \ {"0"}

RECURSIVE Decimal(_)
Decimal(n) ==
    IF n < 10 THEN <<Digits[n + 1]>>
    ELSE Decimal(n \div 10) \o <<Digits[(n % 10) + 1]>>

\* '%d' % n
Str(n) == IF n < 0 THEN <<"-">> \o Decimal(-n) ELSE Decimal(n)

Counts == (-MaxCount)..MaxCount

FormsLine(m) == <<FORMS_LABEL>> \o Str(m) \o <<"\n">>
RemongoLine(label, n) == <<label>> \o Str(n) \o <<"\n">>

\* the reports mongo_sync_status can return: the totals of the forms out of
\* sync and of the records to remongo, or nothing about the records
Reports ==
    {FormsLine(m) \o RemongoLine(label, n) :
        m \in {0, 3}, label \in RemongoSpellings, n \in Counts}
    \cup {FormsLine(m) : m \in {0, 3}}
    \cup {<<>>}

\* the pattern matches at position i: the literal, an optional '-', then
\* at least one digit of the class
MatchesAt(text, i, class) ==
    /\ Lower(text[i]) = Lower(REMONGO_LABEL)
    /\ \/ i + 1 <= Len(text) /\ text[i + 1] \in class
       \/ i + 2 <= Len(text) /\ text[i + 1] = "-" /\ text[i + 2] \in class

\* the pattern with [0-9] where the code has [1-9]
Search_any_digit(text) == \E i \in 1..Len(text) : MatchesAt(text, i, AnyDigit)

\* REMONGO_PATTERN.search(text)
Search(text) == \E i \in 1..Len(text) : MatchesAt(text, i, NonZeroDigit)

NO_SYNC == <<"No synchronization needed">>
SYNC_MONGO_MANUAL_INSTRUCTIONS == <<"To re-sync manually, ...">>
MAIL_SUBJECT == "Mongo DB sync status"

RECURSIVE Join(_, _)
\* sep.join(texts)
Join(sep, texts) ==
    IF Len(texts) = 0 THEN <<>>
    ELSE IF Len(texts) = 1 THEN texts[1]
    ELSE texts[1] \o <<sep>> \o Join(sep, Tail(texts))

\* the body with the two reports in the wrong order
MailBody_after_first(before_report, after_report) ==
    Join("\n\n", <<after_report, before_report, SYNC_MONGO_MANUAL_INSTRUCTIONS>>)

\* '\n\n'.join([before_report, after_report, SYNC_MONGO_MANUAL_INSTRUCTIONS])
MailBody(before_report, after_report) ==
    Join("\n\n", <<before_report, after_report, SYNC_MONGO_MANUAL_INSTRUCTIONS>>)

\* calls: the remongo flag of every mongo_sync_status call of the run;
\* mails: the mails handed to mail_admins in the run
IdleSync ==
    [pc |-> "idle", before_report |-> <<>>, after_report |-> <<>>,
     calls |-> <<>>, mails |-> <<>>, exc |-> "none"]

----------------------------------------------------------------------------
(* Initial state *)

IdleDispatcher ==
    [pc |-> "idle", export_type |-> "none", options |-> NoOptions,
     force_xlsx |-> TRUE, export |-> NullExport,
     result |-> 0, exc |-> "none", refetched |-> FALSE]

Init ==
    /\ store = <<OldExport>>
    /\ nextId = 2
    /\ disp = IdleDispatcher
    /\ jobs = <<>>
    /\ CELERY_ALWAYS_EAGER \in BOOLEAN
    /\ TESTING_MODE \in BOOLEAN
    /\ sync = IdleSync

Settings == <<CELERY_ALWAYS_EAGER, TESTING_MODE>>

----------------------------------------------------------------------------
(* create_async_export *)

\* lines 17-25: _create_export creates the record and commits it
CreateExport(export_type, options, force_xlsx) ==
    /\ disp.pc \in {"idle", "returned", "raised"}
    /\ nextId <= MaxExports + 1
    /\ Route(export_type) # ExportTypeError => Len(jobs) < MaxJobs
    /\ LET export == NewExport(nextId, export_type)
       IN /\ store' = ObjectsCreate(store, export)
          /\ nextId' = nextId + 1
          /\ disp' = [IdleDispatcher EXCEPT
                        !.pc = "created",
                        !.export_type = export_type, !.options = options,
                        !.force_xlsx = force_xlsx, !.export = export]
    /\ UNCHANGED <<jobs, Settings, sync>>

\* the zip job submitted with the delay of its cleanup
Countdown_of_cleanup(task) ==
    IF task = "create_zip_export" THEN ZIP_EXPORT_COUNTDOWN ELSE DISPATCH_COUNTDOWN

\* `countdown=10` in every apply_async of the dispatcher
Countdown(task) == DISPATCH_COUNTDOWN

\* lines 27-76: build the arguments, route, and submit the job or raise
SubmitJob ==
    /\ disp.pc = "created"
    /\ Route(disp.export_type) # ExportTypeError => Len(jobs) < MaxJobs
    /\ LET arguments == BuildArguments(disp.export_type, disp.export.id, disp.options)
           task == Route(disp.export_type)
       IN IF task = ExportTypeError
          THEN /\ jobs' = jobs
               /\ disp' = [disp EXCEPT !.pc = "raised", !.exc = ExportTypeError]
          ELSE /\ jobs' = Append(jobs,
                            NewJob(task, arguments, Countdown(task), ByDispatcher))
               /\ disp' = [disp EXCEPT
                             !.pc = IF CELERY_ALWAYS_EAGER THEN "apply_async"
                                    ELSE "submitted",
                             !.result = Len(jobs) + 1]
    /\ UNCHANGED <<store, nextId, Settings, sync>>

\* lines 77-82, eager mode: apply_async has run the job; re-read the record
Refetch ==
    /\ disp.pc = "apply_async"
    /\ jobs[disp.result].pc \in Terminal
    /\ IF Exists(store, disp.export.id)
       THEN disp' = [disp EXCEPT !.pc = "submitted", !.refetched = TRUE,
                                 !.export = store[disp.export.id]]
       ELSE disp' = [disp EXCEPT !.pc = "raised", !.exc = "DoesNotExist"]
    /\ UNCHANGED <<store, nextId, jobs, Settings, sync>>

\* the stamp forgotten
Stamped_forgotten(export, task_id) == export

\* `export.task_id = result.task_id`
Stamped(export, task_id) == [export EXCEPT !.task_id = <<task_id>>]

\* lines 83-85: stamp the task id on the in-memory copy, save it, return
StampAndSave ==
    /\ disp.pc = "submitted"
    /\ LET export == Stamped(disp.export, disp.result)
       IN /\ store' = ObjectsSave(store, export)
          /\ disp' = [disp EXCEPT !.pc = "returned", !.export = export]
    /\ UNCHANGED <<nextId, jobs, Settings, sync>>

----------------------------------------------------------------------------
(* The job wrappers *)

IsWrapper(i) == jobs[i].task \in WrapperTasks

\* Export.objects.get(id=export_id) at the head of a wrapper
WrapperGet(i) ==
    /\ IsWrapper(i)
    /\ jobs[i].pc = "queued"
    /\ LET j == jobs[i]
           id == j.kwargs.export_id
       IN jobs' = [jobs EXCEPT ![i] =
            IF Exists(store, id)
            THEN [j EXCEPT !.pc = "fetched", !.export = store[id],
                           !.ext = Ext(j.task, j.kwargs)]
            ELSE IF CatchesDoesNotExist(j.task)
                 THEN [j EXCEPT !.pc = "done", !.result = None,
                                !.ext = Ext(j.task, j.kwargs)]
                 ELSE [j EXCEPT !.pc = "raised", !.exc = "DoesNotExist"]]
    /\ UNCHANGED <<store, nextId, disp, Settings, sync>>

\* the call of the format generator inside the try
WrapperGenerate(i, outcome) ==
    /\ IsWrapper(i)
    /\ jobs[i].pc = "fetched"
    /\ outcome \in GenOutcomes(jobs[i].task)
    /\ LET id == jobs[i].kwargs.export_id
       IN /\ outcome = "ok" => Exists(store, id)
          /\ store' = IF outcome = "ok" THEN GeneratorWrites(store, id) ELSE store
    /\ jobs' = [jobs EXCEPT ![i].pc = "generated", ![i].gen = outcome]
    /\ UNCHANGED <<nextId, disp, Settings, sync>>

\* the status left as it was read
MarkedFailed_unmarked(export) == export

\* `export.internal_status = Export.FAILED`
MarkedFailed(export) == [export EXCEPT !.internal_status = FAILED]

\* the except branch up to export.save(); create_csv_export's
\* `except NoRecordsFoundError` ends there and the wrapper returns None
WrapperFailSave(i) ==
    /\ IsWrapper(i)
    /\ jobs[i].pc = "generated"
    /\ jobs[i].gen # "ok"
    /\ LET j == jobs[i]
           export == MarkedFailed(j.export)
           silent == Swallows(j.task, j.gen)
       IN /\ store' = ObjectsSave(store, export)
          /\ jobs' = [jobs EXCEPT ![i] =
                [j EXCEPT !.export = export,
                          !.pc = IF silent THEN "done" ELSE "saved",
                          !.result = None]]
    /\ UNCHANGED <<nextId, disp, Settings, sync>>

\* report_exception(...) and the bare `raise` that follows it
WrapperReportAndRaise(i) ==
    /\ IsWrapper(i)
    /\ jobs[i].pc = "saved"
    /\ jobs' = [jobs EXCEPT ![i] =
            [ReportException(jobs[i]) EXCEPT !.pc = "raised", !.exc = jobs[i].gen]]
    /\ UNCHANGED <<store, nextId, disp, Settings, sync>>

\* the return forgotten
Returned_nothing(gen_export_id) == None

\* `return gen_export.id`
Returned(gen_export_id) == <<gen_export_id>>

\* the else branch: create_zip_export submits delete_export unless testing;
\* every wrapper returns gen_export.id
WrapperSuccess(i) ==
    /\ IsWrapper(i)
    /\ jobs[i].pc = "generated"
    /\ jobs[i].gen = "ok"
    /\ SchedulesCleanup(jobs[i].task) /\ ~TESTING_MODE => Len(jobs) < MaxJobs
    /\ LET j == jobs[i]
           gen_export_id == j.kwargs.export_id
           cleanup == SchedulesCleanup(j.task) /\ ~TESTING_MODE
           finished == [j EXCEPT !.result = Returned(gen_export_id),
                                 !.pc = IF cleanup /\ CELERY_ALWAYS_EAGER
                                        THEN "apply_async" ELSE "done",
                                 !.child = IF cleanup THEN Len(jobs) + 1 ELSE 0]
       IN jobs' = IF cleanup
                  THEN Append([jobs EXCEPT ![i] = finished],
                              NewJob("delete_export", [export_id |-> gen_export_id],
                                     ZIP_EXPORT_COUNTDOWN, ByWrapper(i)))
                  ELSE [jobs EXCEPT ![i] = finished]
    /\ UNCHANGED <<store, nextId, disp, Settings, sync>>

\* eager mode: delete_export.apply_async returns once the cleanup job ended
WrapperEagerReturn(i) ==
    /\ IsWrapper(i)
    /\ jobs[i].pc = "apply_async"
    /\ jobs[jobs[i].child].pc \in Terminal
    /\ jobs' = [jobs EXCEPT ![i].pc = "done"]
    /\ UNCHANGED <<store, nextId, disp, Settings, sync>>

----------------------------------------------------------------------------
(* delete_export *)

\* delete_export without its try/except
DeleteMissing_uncaught(j) == [j EXCEPT !.pc = "raised", !.exc = "DoesNotExist"]

\* `except Export.DoesNotExist: pass` ... `return False`
DeleteMissing(j) == [j EXCEPT !.pc = "done", !.result = <<FALSE>>]

\* lines 308-311, 315: the get, and `return False` when the record is gone
DeleteGet(i) ==
    /\ jobs[i].task = "delete_export"
    /\ jobs[i].pc = "queued"
    /\ LET id == jobs[i].kwargs.export_id
       IN jobs' = [jobs EXCEPT ![i] =
            IF Exists(store, id)
            THEN [@ EXCEPT !.pc = "fetched", !.export = store[id]]
            ELSE DeleteMissing(@)]
    /\ UNCHANGED <<store, nextId, disp, Settings, sync>>

\* lines 312-314: export.delete(); return True
DeleteDelete(i) ==
    /\ jobs[i].task = "delete_export"
    /\ jobs[i].pc = "fetched"
    /\ store' = ObjectsDelete(store, jobs[i].export.id)
    /\ jobs' = [jobs EXCEPT ![i].pc = "done", ![i].result = <<TRUE>>]
    /\ UNCHANGED <<nextId, disp, Settings, sync>>

----------------------------------------------------------------------------
(* Jobs that reach a worker without this run's dispatcher or wrappers     *)
(* having submitted them: a delete_export left on the queue by an earlier *)
(* attachment export or sent by an operator, and create_xls_export called *)
(* with force_xlsx=False, for any record id, present or not               *)

DirectJobs == {i \in DOMAIN jobs : jobs[i].origin = ByCaller}

DirectTasks == {"delete_export", "create_xls_export"}

DirectKwargs(task) ==
    IF task = "delete_export"
    THEN {[export_id |-> id] : id \in Ids}
    ELSE {[k \in DOMAIN BaseArguments(id) \cup {"force_xlsx"} |->
                IF k = "force_xlsx" THEN f ELSE BaseArguments(id)[k]]
          : id \in Ids, f \in BOOLEAN}

Invoke(task, kwargs) ==
    /\ Len(jobs) < MaxJobs
    /\ Cardinality(DirectJobs) < MaxDirect
    /\ jobs' = Append(jobs, NewJob(task, kwargs, 0, ByCaller))
    /\ UNCHANGED <<store, nextId, disp, Settings, sync>>

----------------------------------------------------------------------------

DispatchFrom(optionMaps) ==
    \E t \in ExportTypes, o \in optionMaps, f \in BOOLEAN : CreateExport(t, o, f)

InvokeAny ==
    \E task \in DirectTasks : \E kwargs \in DirectKwargs(task) : Invoke(task, kwargs)

\* every step but the calls from outside
Steps ==
    \/ SubmitJob
    \/ Refetch
    \/ StampAndSave
    \/ \E i \in DOMAIN jobs : WrapperGet(i)
    \/ \E i \in DOMAIN jobs : \E outcome \in GenOutcomes(jobs[i].task) :
            WrapperGenerate(i, outcome)
    \/ \E i \in DOMAIN jobs : WrapperFailSave(i)
    \/ \E i \in DOMAIN jobs : WrapperReportAndRaise(i)
    \/ \E i \in DOMAIN jobs : WrapperSuccess(i)
    \/ \E i \in DOMAIN jobs : WrapperEagerReturn(i)
    \/ \E i \in DOMAIN jobs : DeleteGet(i)
    \/ \E i \in DOMAIN jobs : DeleteDelete(i)

Next ==
    \/ DispatchFrom(CallerOptions)
    \/ Steps
    \/ InvokeAny

Spec == Init /\ [][Next]_vars

\* the dispatcher called with every options mapping, and the jobs it submits
NextArgs ==
    \/ DispatchFrom(AllOptions)
    \/ Steps

SpecArgs == Init /\ [][NextArgs]_vars

----------------------------------------------------------------------------
(* email_mongo_sync_status *)

Exports == <<store, nextId, disp, jobs>>

\* the periodic task starts (again)
SyncStart ==
    /\ sync.pc \in {"idle", "done", "raised"}
    /\ sync' = [IdleSync EXCEPT !.pc = "before"]
    /\ UNCHANGED <<Exports, Settings>>

\* line 341: before_report = mongo_sync_status()
SyncBefore(report) ==
    /\ sync.pc = "before"
    /\ sync' = [sync EXCEPT !.pc = "search", !.before_report = report,
                            !.calls = Append(@, FALSE)]
    /\ UNCHANGED <<Exports, Settings>>

\* line 342: if REMONGO_PATTERN.search(before_report); lines 345-347
SyncSearch ==
    /\ sync.pc = "search"
    /\ sync' = IF Search(sync.before_report)
               THEN [sync EXCEPT !.pc = "remongo"]
               ELSE [sync EXCEPT !.pc = "mail", !.after_report = NO_SYNC]
    /\ UNCHANGED <<Exports, Settings>>

\* lines 343-344: after_report = mongo_sync_status(remongo=True)
SyncRemongo(report) ==
    /\ sync.pc = "remongo"
    /\ sync' = [sync EXCEPT !.pc = "mail", !.after_report = report,
                            !.calls = Append(@, TRUE)]
    /\ UNCHANGED <<Exports, Settings>>

\* a call of mongo_sync_status raises: nothing in the task catches it
SyncProbeRaises ==
    /\ sync.pc \in {"before", "remongo"}
    /\ sync' = [sync EXCEPT !.pc = "raised", !.exc = "Exception",
                            !.calls = Append(@, sync.pc = "remongo")]
    /\ UNCHANGED <<Exports, Settings>>

\* lines 351-354: mail_admins(subject, body)
SyncMail ==
    /\ sync.pc = "mail"
    /\ sync' = [sync EXCEPT !.pc = "done",
                    !.mails = Append(@, [subject |-> MAIL_SUBJECT,
                                         body |-> MailBody(sync.before_report,
                                                           sync.after_report)])]
    /\ UNCHANGED <<Exports, Settings>>

NextSync ==
    \/ SyncStart
    \/ \E report \in Reports : SyncBefore(report)
    \/ SyncSearch
    \/ \E report \in Reports : SyncRemongo(report)
    \/ SyncProbeRaises
    \/ SyncMail

SpecSync == Init /\ [][NextSync]_vars

----------------------------------------------------------------------------
(* Reading the steps of a behaviour *)

\* the step of _create_export: the table hands out a primary key
IsDispatchStep == nextId' # nextId

\* the step that routes: it submits the job or raises ExportTypeError
IsSubmitStep == disp.pc = "created" /\ disp'.pc # "created"

\* the step that saves the stamped record and returns (export, result)
IsReturnStep == disp.pc = "submitted" /\ disp'.pc = "returned"

\* the jobs the current call of create_async_export has submitted
Submitted ==
    {i \in DOMAIN jobs : jobs[i].origin = ByDispatcher
                         /\ jobs[i].kwargs.export_id = disp.export.id}

----------------------------------------------------------------------------
(* C1: for every supported export type one call of create_async_export      *)
(* creates exactly one Export row (the other rows are left as they were),   *)
(* submits exactly one job, for that row, and at the step it returns the    *)
(* stored row carries the task_id of the handle it returns.                 *)

C1_Inv ==
    disp.pc \notin {"idle", "created"} /\ disp.export_type \in SupportedTypes =>
        /\ disp.exc # ExportTypeError
        /\ Cardinality(Submitted) = 1
        /\ Submitted = {disp.result}
        /\ jobs[disp.result].task \in WrapperTasks

C1_Step ==
    /\ IsDispatchStep /\ disp'.export_type \in SupportedTypes =>
        /\ DOMAIN store' = DOMAIN store \cup {disp'.export.id}
        /\ disp'.export.id \notin DOMAIN store
        /\ \A id \in DOMAIN store : store'[id] = store[id]
        /\ jobs' = jobs
    /\ IsSubmitStep /\ disp.export_type \in SupportedTypes =>
        /\ Len(jobs') = Len(jobs) + 1
        /\ store' = store
    /\ disp' # disp /\ ~IsSubmitStep => jobs' = jobs
    /\ IsReturnStep =>
        /\ Exists(store', disp'.export.id)
        /\ store'[disp'.export.id].task_id = <<disp'.result>>
        /\ disp'.export.task_id = <<disp'.result>>
        /\ \A id \in DOMAIN store' \ {disp'.export.id} :
                Exists(store, id) /\ store'[id] = store[id]

\* C1: one call for a supported type creates one row, submits one job, and
\* returns with the handle's task_id stored on the row
C1_OneRecordOneJobStamped == [](C1_Inv) /\ [][C1_Step]_vars

C1_Witness ==
    /\ disp.pc = "returned"
    /\ disp.export_type = KML_EXPORT
    /\ Exists(store, disp.export.id)
    /\ store[disp.export.id].task_id = <<disp.result>>
    /\ Cardinality(Submitted) = 1

----------------------------------------------------------------------------
(* C2: a call with an export type that is none of the supported ones raises *)
(* ExportTypeError, submits no job, and leaves the row it created in the    *)
(* store, pending and with no task_id.                                      *)

C2_Step ==
    /\ IsDispatchStep /\ disp'.export_type \notin SupportedTypes =>
        /\ jobs' = jobs
        /\ Exists(store', disp'.export.id)
        /\ store'[disp'.export.id].internal_status = PENDING
        /\ store'[disp'.export.id].task_id = NoTaskId
    /\ IsSubmitStep /\ disp.export_type \notin SupportedTypes =>
        /\ disp'.pc = "raised"
        /\ disp'.exc = ExportTypeError
        /\ jobs' = jobs
        /\ store' = store

C2_Inv ==
    disp.pc # "idle" /\ disp.export_type \notin SupportedTypes =>
        /\ disp.pc \in {"created", "raised"}
        /\ Submitted = {}

\* C2: an unsupported type raises ExportTypeError, submits nothing, and the
\* created row stays pending with no task_id
C2_UnsupportedTypeRaises == [](C2_Inv) /\ [][C2_Step]_vars

C2_Witness ==
    /\ disp.pc = "raised"
    /\ disp.exc = ExportTypeError
    /\ Submitted = {}
    /\ Exists(store, disp.export.id)
    /\ store[disp.export.id] = NewExport(disp.export.id, "bogus")

----------------------------------------------------------------------------
(* The runs of the wrappers *)

Wrappers == {i \in DOMAIN jobs : IsWrapper(i)}

\* the wrapper's re-read found no record
FoundNoRecord(i) ==
    jobs[i].pc \in Terminal /\ jobs[i].export = NullExport

\* the step in which wrapper i leaves its except branch's save
IsFailSaveStep(i) ==
    /\ jobs[i].pc = "generated" /\ jobs[i].gen # "ok"
    /\ jobs'[i].pc \in {"saved", "done"}

----------------------------------------------------------------------------
(* C3: every job wrapper run with an export_id that has no record returns   *)
(* None, raises no error, calls no generator and writes nothing.            *)
(* Fails in the code: only create_xls_export catches DoesNotExist.          *)

\* C3: a wrapper whose record is missing returns None without error,
\* generator call or write
C3_MissingRecordReturnsNone ==
    \A i \in Wrappers : FoundNoRecord(i) =>
        /\ jobs[i].pc = "done"
        /\ jobs[i].result = None
        /\ jobs[i].exc = "none"
        /\ jobs[i].gen = "none"

----------------------------------------------------------------------------
(* C4: in every job wrapper, a generator raising NoRecordsFoundError leaves *)
(* the record FAILED, sends no admin notification and is not re-raised.     *)
(* Fails in the code: only create_csv_export has that except clause.        *)

\* C4: NoRecordsFoundError ends every wrapper with the record FAILED, no
\* notification and no exception raised
C4_NoRecordsIsSilent ==
    \A i \in Wrappers :
        jobs[i].gen = NoRecordsFoundError /\ jobs[i].pc \in Terminal =>
            /\ jobs[i].pc = "done"
            /\ jobs[i].exc = "none"
            /\ jobs[i].mailed = 0
            /\ jobs[i].export.internal_status = FAILED

----------------------------------------------------------------------------
(* C5: in every job wrapper, a generator raising anything other than        *)
(* NoRecordsFoundError has the record saved as FAILED, exactly one admin    *)
(* notification sent, and the same exception raised out of the wrapper.     *)

OtherFailures == {"Exception", "ConnectionError"}

C5_Inv ==
    \A i \in Wrappers : jobs[i].gen \in OtherFailures =>
        /\ jobs[i].pc \in {"generated", "saved", "raised"}
        /\ jobs[i].pc = "generated" => jobs[i].mailed = 0
        /\ jobs[i].pc = "saved" =>
                jobs[i].mailed = 0 /\ jobs[i].export.internal_status = FAILED
        /\ jobs[i].pc = "raised" =>
                /\ jobs[i].exc = jobs[i].gen
                /\ jobs[i].mailed = 1
                /\ jobs[i].export.internal_status = FAILED

C5_Step ==
    \A i \in Wrappers :
        /\ IsFailSaveStep(i) /\ jobs[i].gen \in OtherFailures =>
            /\ jobs'[i].pc = "saved"
            /\ Exists(store', jobs[i].kwargs.export_id)
            /\ store'[jobs[i].kwargs.export_id].internal_status = FAILED
        /\ jobs'[i].pc = "raised" /\ jobs[i].pc # "raised"
              /\ jobs[i].gen \in OtherFailures => jobs[i].pc = "saved"

\* C5: any other generator exception ends every wrapper with FAILED saved,
\* one notification sent and the same exception raised
C5_OtherFailureEscalates == [](C5_Inv) /\ [][C5_Step]_vars

C5_Witness ==
    \E i \in Wrappers :
        /\ jobs[i].task = "create_external_export"
        /\ jobs[i].gen = "ConnectionError"
        /\ jobs[i].pc = "raised"
        /\ jobs[i].exc = "ConnectionError"
        /\ jobs[i].mailed = 1
        /\ Exists(store, jobs[i].kwargs.export_id)
        /\ store[jobs[i].kwargs.export_id].internal_status = FAILED

----------------------------------------------------------------------------
(* C6: under every interleaving of the dispatcher with the job it submitted *)
(* and in both scheduler modes, the save that persists task_id does not     *)
(* overwrite a status or an output the wrapper or the generator wrote.      *)
(* Fails in the code: without CELERY_ALWAYS_EAGER the copy made before the  *)
(* submission is the one saved.                                             *)

C6_Step ==
    IsReturnStep /\ Exists(store, disp.export.id) =>
        /\ store'[disp.export.id].internal_status
                = store[disp.export.id].internal_status
        /\ store'[disp.export.id].filename = store[disp.export.id].filename

\* C6: the dispatcher's save of task_id keeps the stored status and output
C6_StampKeepsStatusAndOutput == [][C6_Step]_vars

----------------------------------------------------------------------------
(* C7: a row's internal_status only ever changes from pending to FAILED;    *)
(* once FAILED, no later write makes it anything else.                      *)
(* Fails in the code through the stale save of C6.                          *)

C7_Step ==
    \A id \in DOMAIN store \cap DOMAIN store' :
        store'[id].internal_status # store[id].internal_status =>
            /\ store[id].internal_status = PENDING
            /\ store'[id].internal_status = FAILED

\* C7: the only change of a stored internal_status is PENDING -> FAILED
C7_StatusOneWay == [][C7_Step]_vars

----------------------------------------------------------------------------
(* C8: when the generator of create_zip_export succeeds and TESTING_MODE is *)
(* off, the wrapper submits exactly one delete_export for the generated     *)
(* record with countdown ZIP_EXPORT_COUNTDOWN; with TESTING_MODE on it      *)
(* submits none; the wrapper's own step writes nothing to the store (it     *)
(* neither deletes the record nor touches its status); and no other wrapper *)
(* submits a cleanup job.                                                   *)

SubmittedBy(i) == {c \in DOMAIN jobs : jobs[c].origin = ByWrapper(i)}

Succeeded(i) == jobs[i].gen = "ok" /\ jobs[i].pc \in {"apply_async", "done"}

C8_Inv ==
    /\ \A i \in Wrappers :
        IF Succeeded(i) /\ jobs[i].task = "create_zip_export" /\ ~TESTING_MODE
        THEN /\ Cardinality(SubmittedBy(i)) = 1
             /\ \A c \in SubmittedBy(i) :
                    /\ jobs[c].task = "delete_export"
                    /\ jobs[c].kwargs = [export_id |-> jobs[i].kwargs.export_id]
                    /\ jobs[i].result = <<jobs[c].kwargs.export_id>>
                    /\ jobs[c].countdown = ZIP_EXPORT_COUNTDOWN
        ELSE SubmittedBy(i) = {}
    /\ \A c \in DOMAIN jobs :
        jobs[c].task = "delete_export" /\ jobs[c].origin # ByCaller =>
            \E i \in Wrappers :
                jobs[c].origin = ByWrapper(i) /\ jobs[i].task = "create_zip_export"

C8_Step ==
    \A i \in Wrappers :
        jobs[i].pc = "generated" /\ jobs[i].gen = "ok" /\ jobs'[i].pc # "generated" =>
            store' = store

----------------------------------------------------------------------------
(* C9: delete_export is idempotent.  A run that finds the record deletes it *)
(* and returns True; a run that starts once the record is gone returns      *)
(* False and changes nothing; no run raises; no run changes another row.    *)

Deletes == {i \in DOMAIN jobs : jobs[i].task = "delete_export"}

C9_Inv ==
    \A i \in Deletes :
        /\ jobs[i].pc # "raised"
        /\ jobs[i].exc = "none"
        /\ jobs[i].pc = "done" => jobs[i].result \in {<<TRUE>>, <<FALSE>>}
        /\ jobs[i].pc # "done" => jobs[i].result = None

C9_Step ==
    \A i \in Deletes :
        LET id == jobs[i].kwargs.export_id
        IN /\ jobs[i].pc = "queued" /\ jobs'[i].pc # "queued" =>
                /\ store' = store
                /\ IF Exists(store, id)
                   THEN jobs'[i].pc = "fetched"
                   ELSE jobs'[i].pc = "done" /\ jobs'[i].result = <<FALSE>>
           /\ jobs[i].pc = "fetched" /\ jobs'[i].pc # "fetched" =>
                /\ jobs'[i].pc = "done" /\ jobs'[i].result = <<TRUE>>
                /\ ~Exists(store', id)
                /\ DOMAIN store' = DOMAIN store \ {id}
                /\ \A other \in DOMAIN store' : store'[other] = store[other]

\* C9: delete_export returns True after deleting the row it found, False when
\* the row is gone, never raises and touches no other row
C9_DeleteIdempotent == [](C9_Inv) /\ [][C9_Step]_vars

C9_Witness ==
    \E i, k \in Deletes :
        /\ jobs[i].kwargs.export_id = jobs[k].kwargs.export_id
        /\ jobs[i].pc = "done" /\ jobs[i].result = <<TRUE>>
        /\ jobs[k].pc = "done" /\ jobs[k].result = <<FALSE>>
        /\ jobs[k].origin = ByCaller
        /\ ~Exists(store, jobs[i].kwargs.export_id)
        /\ Exists(store, 1) /\ store[1] = OldExport

----------------------------------------------------------------------------
(* C10: for every supported export type and every options mapping the       *)
(* submitted argument set is username, id_string, export_id and query plus  *)
(* exactly the keys of the mapping that apply to the type, with the values  *)
(* the mapping gives them; every other key is dropped, and none raises.     *)

ApplicableKeys(export_type) ==
    CASE export_type \in {XLS_EXPORT, GDOC_EXPORT, CSV_EXPORT, CSV_ZIP_EXPORT,
                          SAV_ZIP_EXPORT} ->
            {"group_delimiter", "split_select_multiples", "binary_select_multiples"}
      [] export_type = EXTERNAL_EXPORT -> {"token", "meta"}
      [] export_type \in {ZIP_EXPORT, KML_EXPORT} -> {}

\* C10: the submitted kwargs are the four base arguments plus exactly the
\* applicable keys of the options mapping, with its values
C10_ArgumentsAreTheApplicableOptions ==
    disp.pc \notin {"idle", "created"} /\ disp.export_type \in SupportedTypes =>
        /\ disp.exc # ExportTypeError
        /\ disp.result \in DOMAIN jobs
        /\ LET kwargs == jobs[disp.result].kwargs
               kept == ApplicableKeys(disp.export_type) \cap DOMAIN disp.options
           IN /\ DOMAIN kwargs =
                    {"username", "id_string", "export_id", "query"} \cup kept
              /\ kwargs.username = USERNAME
              /\ kwargs.id_string = ID_STRING
              /\ kwargs.export_id = disp.export.id
              /\ kwargs.query = QUERY
              /\ \A k \in kept : kwargs[k] = disp.options[k]

C10_Witness ==
    /\ disp.pc = "returned"
    /\ disp.export_type = EXTERNAL_EXPORT
    /\ DOMAIN disp.options = {"group_delimiter", "meta", "other"}
    /\ DOMAIN jobs[disp.result].kwargs =
            {"username", "id_string", "export_id", "query", "meta"}
    /\ jobs[disp.result].kwargs.meta = "m"

----------------------------------------------------------------------------
(* Reading a report the way the reader of the mail does *)

RECURSIVE Lines(_)
\* the lines of a text
Lines(text) ==
    IF text = <<>> THEN {}
    ELSE LET ends == {k \in 1..Len(text) : text[k] = "\n"}
             k == IF ends = {} THEN Len(text) + 1
                  ELSE CHOOSE e \in ends : \A f \in ends : e <= f
         IN {SubSeq(text, 1, k - 1)} \cup Lines(SubSeq(text, k + 1, Len(text)))

\* the tokens spell a signed integer that is not zero
IsNonzeroInteger(tokens) ==
    LET digits == IF tokens # <<>> /\ tokens[1] = "-" THEN Tail(tokens) ELSE tokens
    IN /\ digits # <<>>
       /\ \A k \in 1..Len(digits) : digits[k] \in AnyDigit
       /\ \E k \in 1..Len(digits) : digits[k] # "0"

\* a line "Total # of records to remongo: N", in any case, with N nonzero
HasNonzeroRemongoLine(text) ==
    \E line \in Lines(text) :
        /\ line # <<>>
        /\ line[1] \in RemongoSpellings
        /\ IsNonzeroInteger(Tail(line))

Reconciled == \E k \in 1..Len(sync.calls) : sync.calls[k] = TRUE

----------------------------------------------------------------------------
(* C11: email_mongo_sync_status calls mongo_sync_status(remongo=True)       *)
(* exactly when the before-report has a line "Total # of records to         *)
(* remongo: N" (in any case) with N a nonzero signed integer; otherwise     *)
(* there is no such call and the after-report is "No synchronization        *)
(* needed".                                                                 *)

\* C11: the reconcile call is made iff the before-report counts a nonzero
\* number of records to remongo; otherwise the after-report is the literal
C11_ReconcileIffNonzeroCount ==
    LET needed == HasNonzeroRemongoLine(sync.before_report)
    IN /\ sync.pc = "remongo" => needed
       /\ sync.pc = "raised" /\ Reconciled => needed
       /\ sync.pc \in {"mail", "done"} =>
            /\ Reconciled <=> needed
            /\ ~needed => sync.after_report = NO_SYNC /\ sync.calls = <<FALSE>>
            /\ needed => sync.after_report \in Reports

C11_Witness ==
    /\ sync.pc = "done"
    /\ sync.before_report =
            FormsLine(3) \o RemongoLine("total # of records to remongo: ", -10)
    /\ sync.calls = <<FALSE, TRUE>>
    /\ sync.after_report = FormsLine(0) \o RemongoLine(REMONGO_LABEL, 0)

----------------------------------------------------------------------------
(* C12: in every wrapper whose generator failed in a way the wrapper        *)
(* escalates, the save of the FAILED status is a step of its own that comes *)
(* before report_exception and before the re-raise: after it the store      *)
(* holds the record as FAILED while no notification has been sent and no    *)
(* exception has left the wrapper, and the later step writes nothing.       *)

C12_Step ==
    \A i \in Wrappers :
        LET id == jobs[i].kwargs.export_id
        IN /\ IsFailSaveStep(i) /\ jobs'[i].pc = "saved" =>
                /\ Exists(store', id)
                /\ store'[id].internal_status = FAILED
                /\ jobs'[i].mailed = 0
                /\ jobs'[i].exc = "none"
           /\ jobs'[i].mailed # jobs[i].mailed =>
                jobs[i].pc = "saved" /\ store' = store
           /\ jobs'[i].pc = "raised" /\ jobs[i].pc # "raised" /\ jobs[i].gen # "none" =>
                jobs[i].pc = "saved" /\ store' = store

\* C12: FAILED is persisted before the notification is attempted and before
\* the exception is re-raised
C12_FailedPersistedBeforeReport == [][C12_Step]_vars

\* the persist has happened, the notification has not: a stop here leaves FAILED
C12_Witness ==
    \E i \in Wrappers :
        /\ jobs[i].task = "create_zip_export"
        /\ jobs[i].pc = "saved"
        /\ jobs[i].gen = "Exception"
        /\ jobs[i].mailed = 0
        /\ Exists(store, jobs[i].kwargs.export_id)
        /\ store[jobs[i].kwargs.export_id].internal_status = FAILED

----------------------------------------------------------------------------
(* C13: a wrapper whose record is deleted after its re-read and before it   *)
(* finishes ends silently with a None result: it sends no notification,     *)
(* raises nothing, and its save in the except branch does not bring the     *)
(* record back.                                                             *)
(* Fails in the code: no wrapper looks at the record again after its get;   *)
(* the except branch saves the copy it holds, which inserts the row anew,   *)
(* and (NoRecordsFoundError in create_csv_export apart) reports and raises. *)

\* wrapper i holds a copy of a record that is gone from the store
LostItsRecord(i) ==
    /\ jobs[i].pc \in {"fetched", "generated", "saved"}
    /\ ~Exists(store, jobs[i].kwargs.export_id)

C13_Step ==
    \A i \in Wrappers :
        LostItsRecord(i) /\ jobs'[i] # jobs[i] =>
            /\ ~Exists(store', jobs[i].kwargs.export_id)
            /\ jobs'[i].mailed = jobs[i].mailed
            /\ jobs'[i].pc # "raised"
            /\ jobs'[i].pc \in Terminal => jobs'[i].result = None

\* C13: a record deleted under a running wrapper makes it end silently with
\* None, without notification and without the record coming back
C13_DeletedMidRunEndsSilently == [][C13_Step]_vars

----------------------------------------------------------------------------
(* C14: a task_id the dispatcher has saved on a record stays on it for as   *)
(* long as the record exists; in particular the FAILED save of a wrapper    *)
(* that read the record before the stamp does not clear or replace it.      *)
(* Fails in the code: the wrapper saves the whole copy it read, task_id     *)
(* included, over the stamped row.                                          *)

C14_Step ==
    \A id \in DOMAIN store \cap DOMAIN store' :
        store[id].task_id # NoTaskId => store'[id].task_id = store[id].task_id

\* C14: no step clears or replaces the task_id stored on an existing record
C14_TaskIdStaysSet == [][C14_Step]_vars

----------------------------------------------------------------------------
(* C15: when its generator succeeded, what the wrapper itself does (its     *)
(* get before the call, its else branch and return after it) writes nothing *)
(* to the store, and the wrapper returns the id of the generator's object.  *)

C15_Step ==
    \A i \in Wrappers :
        /\ jobs[i].pc = "queued" /\ jobs'[i] # jobs[i] => store' = store
        /\ jobs[i].gen = "ok" /\ jobs'[i] # jobs[i] =>
            /\ store' = store
            /\ jobs'[i].export = jobs[i].export
            /\ jobs'[i].result = <<jobs[i].kwargs.export_id>>
            /\ jobs'[i].exc = "none"

C15_Inv ==
    \A i \in Wrappers :
        jobs[i].gen = "ok" /\ jobs[i].pc \in Terminal =>
            /\ jobs[i].pc = "done"
            /\ jobs[i].result = <<jobs[i].kwargs.export_id>>
            /\ jobs[i].mailed = 0

\* C15: on generator success the wrapper writes nothing and returns the id
\* of the generator's object
C15_SuccessWritesNothing == [](C15_Inv) /\ [][C15_Step]_vars

C15_Witness ==
    \E i \in Wrappers :
        /\ jobs[i].task = "create_external_export"
        /\ jobs[i].pc = "done"
        /\ jobs[i].gen = "ok"
        /\ jobs[i].result = <<2>>
        /\ Exists(store, 2)
        /\ store[2].internal_status = jobs[i].export.internal_status
        /\ store[2].filename = "file"

----------------------------------------------------------------------------
(* C16: create_async_export creates (and commits) its record in a step that *)
(* submits nothing, and submits its job only afterwards, for that record;   *)
(* the stored task_id of the record stays unset until apply_async has       *)
(* returned and the dispatcher saves the stamp; every job the dispatcher    *)
(* submits has countdown 10.                                                *)

C16_Inv ==
    /\ disp.pc = "created" => Submitted = {}
    /\ disp.pc \in {"created", "apply_async", "submitted"}
            /\ Exists(store, disp.export.id) =>
                store[disp.export.id].task_id = NoTaskId
    /\ \A i \in DOMAIN jobs : jobs[i].origin = ByDispatcher =>
            /\ jobs[i].countdown = 10
            /\ jobs[i].kwargs.export_id < nextId

C16_Step ==
    /\ IsDispatchStep =>
            /\ jobs' = jobs
            /\ Exists(store', disp'.export.id)
            /\ store'[disp'.export.id].task_id = NoTaskId
    /\ Len(jobs') > Len(jobs) /\ jobs'[Len(jobs')].origin = ByDispatcher =>
            /\ IsSubmitStep
            /\ store' = store
            /\ nextId' = nextId
            /\ jobs'[Len(jobs')].kwargs.export_id = disp.export.id
            /\ jobs'[Len(jobs')].pc = "queued"

\* C16: the record is created before the job is submitted, its stored
\* task_id is unset until the handle is back, and the delay is always 10
C16_CreateThenSubmitThenStamp == [](C16_Inv) /\ [][C16_Step]_vars

C16_Witness ==
    /\ disp.pc = "submitted"
    /\ disp.export_type = SAV_ZIP_EXPORT
    /\ jobs[disp.result].task = "create_sav_zip_export"
    /\ jobs[disp.result].countdown = 10
    /\ jobs[disp.result].pc = "generated"
    /\ Exists(store, disp.export.id)
    /\ store[disp.export.id].task_id = NoTaskId

----------------------------------------------------------------------------
(* C17: a run of email_mongo_sync_status that completes has sent exactly    *)
(* one mail to the admins, whose body is the before-report, the             *)
(* after-report and the manual instructions in that order; it has called    *)
(* mongo_sync_status once when no synchronization was needed and twice, the *)
(* second time with remongo=True, otherwise. A run in which a call of       *)
(* mongo_sync_status raises ends there: no mail, no further call.           *)

C17_Inv ==
    /\ sync.pc # "done" => sync.mails = <<>>
    /\ sync.pc = "done" =>
        /\ Len(sync.mails) = 1
        /\ sync.mails[1].body =
                sync.before_report \o <<"\n\n">> \o sync.after_report
                    \o <<"\n\n">> \o SYNC_MONGO_MANUAL_INSTRUCTIONS
        /\ sync.exc = "none"
        /\ sync.calls = IF HasNonzeroRemongoLine(sync.before_report)
                        THEN <<FALSE, TRUE>> ELSE <<FALSE>>
    /\ sync.pc = "raised" =>
        /\ sync.exc # "none"
        /\ sync.calls \in {<<FALSE>>, <<FALSE, TRUE>>}

C17_Step ==
    /\ sync.pc = "raised" /\ sync' # sync => sync' = [IdleSync EXCEPT !.pc = "before"]
    /\ sync.pc = "done" /\ sync' # sync => sync' = [IdleSync EXCEPT !.pc = "before"]

\* C17: one completed run sends one mail (before, after, instructions) after
\* one or two calls of mongo_sync_status; a failed call ends the run unmailed
C17_OneMailPerRun == [](C17_Inv) /\ [][C17_Step]_vars

C17_Witness ==
    /\ sync.pc = "done"
    /\ sync.before_report = FormsLine(0) \o RemongoLine(REMONGO_LABEL, 0)
    /\ sync.after_report = NO_SYNC
    /\ sync.calls = <<FALSE>>
    /\ Len(sync.mails) = 1

----------------------------------------------------------------------------
(* C18: a wrapper run of a job the dispatcher submitted ends in exactly one *)
(* of four outcomes: DONE (the generator's id returned), FAILED silent (no  *)
(* records: FAILED saved, nothing sent, nothing raised), FAILED escalated   *)
(* (another exception: FAILED saved, one notification, re-raised) or        *)
(* NULL_RESULT (record missing: None returned); it ends in no other way.    *)
(* Fails in the code: six wrappers raise DoesNotExist on a missing record,  *)
(* and all but create_csv_export escalate NoRecordsFoundError.              *)

EndedDone(i) ==
    /\ jobs[i].gen = "ok"
    /\ jobs[i].pc = "done"
    /\ jobs[i].result = <<jobs[i].kwargs.export_id>>

EndedFailedSilent(i) ==
    /\ jobs[i].gen = NoRecordsFoundError
    /\ jobs[i].pc = "done"
    /\ jobs[i].result = None
    /\ jobs[i].mailed = 0
    /\ jobs[i].export.internal_status = FAILED

EndedFailedEscalated(i) ==
    /\ jobs[i].gen \in OtherFailures
    /\ jobs[i].pc = "raised"
    /\ jobs[i].exc = jobs[i].gen
    /\ jobs[i].mailed = 1
    /\ jobs[i].export.internal_status = FAILED

EndedNullResult(i) ==
    /\ jobs[i].export = NullExport
    /\ jobs[i].gen = "none"
    /\ jobs[i].pc = "done"
    /\ jobs[i].result = None
    /\ jobs[i].mailed = 0

\* C18: every ended run of a dispatched wrapper is DONE, FAILED silent,
\* FAILED escalated or NULL_RESULT
C18_EndsInOneOfFourOutcomes ==
    \A i \in Wrappers :
        jobs[i].origin = ByDispatcher /\ jobs[i].pc \in Terminal =>
            \/ EndedDone(i)
            \/ EndedFailedSilent(i)
            \/ EndedFailedEscalated(i)
            \/ EndedNullResult(i)

----------------------------------------------------------------------------
(* C19: the force_xlsx argument of create_async_export never gets into the  *)
(* kwargs of the job it submits, so for either value a create_xls_export    *)
(* job of the dispatcher runs with the default force_xlsx=True and asks for *)
(* 'xlsx'; a run asks for 'xls' only when the wrapper is invoked directly   *)
(* with force_xlsx=False.                                                   *)

\* C19: dispatched spreadsheet jobs carry no force_xlsx and ask for 'xlsx';
\* 'xls' is asked for only by a direct call with force_xlsx=False
C19_ForceXlsxIsDropped ==
    \A i \in DOMAIN jobs :
        /\ jobs[i].origin = ByDispatcher =>
            /\ "force_xlsx" \notin DOMAIN jobs[i].kwargs
            /\ jobs[i].task = "create_xls_export" /\ jobs[i].pc # "queued" =>
                    jobs[i].ext = "xlsx"
        /\ jobs[i].ext = "xls" =>
            /\ jobs[i].task = "create_xls_export"
            /\ jobs[i].origin = ByCaller
            /\ "force_xlsx" \in DOMAIN jobs[i].kwargs
            /\ jobs[i].kwargs.force_xlsx = FALSE

C19_Witness ==
    /\ disp.pc = "returned"
    /\ disp.export_type = XLS_EXPORT
    /\ disp.force_xlsx = FALSE
    /\ jobs[disp.result].task = "create_xls_export"
    /\ jobs[disp.result].pc = "done"
    /\ jobs[disp.result].ext = "xlsx"
    /\ \E i \in DOMAIN jobs : jobs[i].origin = ByCaller /\ jobs[i].ext = "xls"

====
